---- MODULE Spec2Model ----
(***************************************************************************)
(* A model of sortie (src/sortie.py): one batch run enumerates source      *)
(* objects of an S3 bucket, downloads them into a local cache directory,   *)
(* renders a destination key for every cached file from its ID3 tags,      *)
(* uploads the files, optionally deletes the sources and optionally erases *)
(* the cache directory.                                                    *)
(*                                                                         *)
(* Strings are sequences of one-character strings, so that endswith(),     *)
(* format() and template rendering are computed and not assumed.           *)
(***************************************************************************)
EXTENDS Integers, Sequences, FiniteSets, TLC

\* ------------------------------------------------------------------ bounds
\* number of consecutive runs of Main() over the same bucket and cache dir
MaxRuns == 2
\* longest 'input' array of the track list file
MaxManifest == 2
\* width in bits to which the 128-bit uuid5 digest is narrowed
HashBits == 6
\* objects per page of the list_objects_v2 paginator
PageSize == 2

\* ------------------------------------------------------------------- state
VARIABLES
  run,          \* the number of the current run of Main()
  pc,           \* where Main() stands
  config,       \* the Config object of the run
  configured,   \* the values of the ini file the run was started with
  track_list,   \* data['input'] of the track list file
  bucket,       \* the S3 bucket: object key -> content
  cache,        \* the files below cache_dir: path -> content
  cacheExists,  \* whether the directory cache_dir exists
  tracks,       \* source_lister.tracks
  contents,     \* the listing ingest_s3 received
  cache_list,   \* the TrackConverter objects slurp_cache returned
  i,            \* position of the running for loop
  ops,          \* the S3io calls and the rmtree issued by the run, in order
  staged,       \* every [run, track, local file] a download has written, all runs
  error,        \* the exception that ended the run
  log           \* the calls of Logger.log made by the run, in order

vars ==
  << run, pc, config, configured, track_list, bucket, cache, cacheExists,
     tracks, contents, cache_list, i, ops, staged, error, log >>

\* ----------------------------------------------------------------- strings
\* the characters in use, in ASCII order
Alphabet ==
  << ".", "/", "0", "1", "2", "3", "4", "5", "6", "7", "8", "9",
     "A", "B", "N", "a", "b", "c", "d", "e", "m", "n", "o", "p", "t", "x" >>

Code(c) == CHOOSE n \in 1..Len(Alphabet) : Alphabet[n] = c

\* str.endswith
endswith(s, suffix) ==
  /\ Len(s) >= Len(suffix)
  /\ SubSeq(s, Len(s) - Len(suffix) + 1, Len(s)) = suffix

DotMp3 == << ".", "m", "p", "3" >>
Slash  == << "/" >>

\* byte-wise order of two keys, the order in which S3 lists a bucket
RECURSIVE LexLess(_, _)
LexLess(s, t) ==
  IF s = << >> THEN t # << >>
  ELSE IF t = << >> THEN FALSE
  ELSE IF Head(s) = Head(t) THEN LexLess(Tail(s), Tail(t))
  ELSE Code(Head(s)) < Code(Head(t))

\* the keys of the bucket in listing order
RECURSIVE SortKeys(_)
SortKeys(S) ==
  IF S = {} THEN << >>
  ELSE LET m == CHOOSE k \in S : \A o \in S \ {k} : LexLess(k, o)
       IN  << m >> \o SortKeys(S \ {m})

\* a sequence back to front
Reverse(q) == [n \in 1..Len(q) |-> q[Len(q) + 1 - n]]

\* ------------------------------------------------------- the objects at hand
KDir   == << "a", "/" >>
KTrack == << "a", "/", "t", ".", "m", "p", "3" >>
KNote  == << "b", "/", "n", ".", "t", "x", "t" >>
KSong  == << "c", ".", "m", "p", "3" >>
Keys   == { KDir, KTrack, KNote, KSong }

\* what each object holds when the first run starts
InitContent(k) ==
  CASE k = KTrack -> "tagged"
    [] k = KSong  -> "untagged"
    [] k = KNote  -> "text"
    [] OTHER      -> "empty"

\* Python's None: a value that is no string of characters
None == << "None" >>

\* TinyTag.get: the tags of a file, None for a tag the file does not carry
\* ("untagged" and "old" are two different files that both carry no tag)
TinyTagGet(content) ==
  IF content = "tagged"
  THEN [artist |-> << "A" >>, album |-> << "B" >>, title |-> << "c" >>]
  ELSE [artist |-> None, album |-> None, title |-> None]

\* --------------------------------------------------------------- templates
\* a jinja2 template as its parsed parts: literal text and {{ variable }}
Lit(text) == [kind |-> "lit", text |-> text]
Var(name) == [kind |-> "var", text |-> name]

\* "{{artist}}/{{album}}/{{title}}.mp3"
MaskFull ==
  << Var("artist"), Lit(Slash), Var("album"), Lit(Slash), Var("title"), Lit(DotMp3) >>
\* "{{title}}.mp3"
MaskTitle == << Var("title"), Lit(DotMp3) >>
\* "" (sort_mask left blank in the ini file)
MaskEmpty == << >>
Masks == { MaskFull, MaskTitle, MaskEmpty }

\* what jinja2 writes for a value given to render(): str(value)
Str(value) == IF value = None THEN << "N", "o", "n", "e" >> ELSE value

\* Template.render( artist=.., album=.., title=.. ): a variable the call
\* does not pass is undefined and renders as nothing
RECURSIVE Render(_, _)
Render(tm, ctx) ==
  IF tm = << >> THEN << >>
  ELSE LET part == Head(tm)
           out  == IF part.kind = "lit" THEN part.text
                   ELSE IF part.text \in DOMAIN ctx THEN Str(ctx[part.text])
                   ELSE << >>
       IN  out \o Render(Tail(tm), ctx)

\* TrackConverter.load_target_template
load_target_template(tags, ref) ==
  Render(ref, [artist |-> tags.artist, album |-> tags.album, title |-> tags.title])

\* ------------------------------------------------------------ cache naming
\* the digest behind uuid.uuid5( NAMESPACE_OID, track ), narrowed to HashBits
RECURSIVE Digest(_, _)
Digest(h, s) ==
  IF s = << >> THEN h
  ELSE Digest((h * 31 + Code(Head(s))) % (2 ^ HashBits), Tail(s))

\* str() of a digest
RECURSIVE Digits(_)
Digits(n) ==
  IF n < 10 THEN << Alphabet[n + 3] >>
  ELSE Digits(n \div 10) \o << Alphabet[(n % 10) + 3] >>

\* mutant: a name drawn anew for every call, as uuid.uuid4() would give
uuid5_PerCall(track) == Digits(Digest(7 + i + run, track))

uuid5(track) == Digits(Digest(7, track))

\* a path below cache_dir: the sub-directories and the file name
Path(dir, name) == [dir |-> dir, name |-> name]

\* "{0}/{1}.mp3".format( config.cache_dir, str( uuid.uuid5( .. ) ) )
local_filename(track) == Path(<< >>, uuid5(track) \o DotMp3)

\* ------------------------------------------------------------- enumeration
\* mutant: the test for '.mp3' is missing
ingest_trackfile_NoFilter(input) == input

\* mutant: the kept entries are prepended instead of appended
RECURSIVE ingest_trackfile_Reversed(_)
ingest_trackfile_Reversed(input) ==
  IF input = << >> THEN << >>
  ELSE ingest_trackfile_Reversed(Tail(input))
       \o (IF endswith(Head(input), DotMp3) THEN << Head(input) >> ELSE << >>)

\* TrackLister.ingest_trackfile: the loop over data['input']
RECURSIVE ingest_trackfile(_)
ingest_trackfile(input) ==
  IF input = << >> THEN << >>
  ELSE (IF endswith(Head(input), DotMp3) THEN << Head(input) >> ELSE << >>)
       \o ingest_trackfile(Tail(input))

\* mutant: only the directory markers are dropped
RECURSIVE ingest_s3_NoSuffixTest(_)
ingest_s3_NoSuffixTest(listing) ==
  IF listing = << >> THEN << >>
  ELSE (IF ~endswith(Head(listing), Slash) THEN << Head(listing) >> ELSE << >>)
       \o ingest_s3_NoSuffixTest(Tail(listing))

\* TrackLister.ingest_s3: the loop over the listed contents
RECURSIVE ingest_s3(_)
ingest_s3(listing) ==
  IF listing = << >> THEN << >>
  ELSE (IF ~endswith(Head(listing), Slash) /\ endswith(Head(listing), DotMp3)
        THEN << Head(listing) >> ELSE << >>)
       \o ingest_s3(Tail(listing))

\* the pages the list_objects_v2 paginator yields for a bucket; the single
\* page of a bucket without objects carries no 'Contents'
RECURSIVE Chunk(_)
Chunk(keys) ==
  IF Len(keys) <= PageSize THEN << [KeyCount |-> Len(keys), Contents |-> keys] >>
  ELSE << [KeyCount |-> PageSize, Contents |-> SubSeq(keys, 1, PageSize)] >>
       \o Chunk(SubSeq(keys, PageSize + 1, Len(keys)))

paginate(objects) ==
  IF DOMAIN objects = {} THEN << [KeyCount |-> 0] >>
  ELSE Chunk(SortKeys(DOMAIN objects))

\* S3io.list_bucket_contents: the files of all pages, or the error raised
RECURSIVE list_pages(_, _)
list_pages(pages, files) ==
  IF pages = << >> THEN [err |-> "none", files |-> files]
  ELSE IF "Contents" \notin DOMAIN Head(pages) THEN [err |-> "KeyError", files |-> files]
  ELSE list_pages(Tail(pages), files \o Head(pages).Contents)

list_bucket_contents(objects, allowed) ==
  IF ~allowed THEN [err |-> "InvalidPermissions", files |-> << >>]
  ELSE list_pages(paginate(objects), << >>)

\* the orders in which the file system returns the files of one directory:
\* by name, ascending or descending (of the orders a file system can
\* produce, the two that put every pair of files both ways round)
Orderings(S) ==
  LET names == SortKeys({ p.name : p \in S })
      byName == [n \in 1..Len(names) |-> CHOOSE p \in S : p.name = names[n]]
  IN  { byName, Reverse(byName) }

\* the files os.walk can report for a cache directory: the files of the top
\* directory first, then those of the sub-directories
walk(files) ==
  LET top  == { p \in files : p.dir = << >> }
      deep == files \ top
  IN  { a \o b : a \in Orderings(top), b \in Orderings(deep) }

\* mutant: only the files download_all_tracks wrote in this run are kept
ingest_cache_OnlyStaged(walked) ==
  LET now   == { local_filename(tracks[n]).name : n \in 1..Len(tracks) }
      names == [n \in 1..Len(walked) |-> walked[n].name]
  IN  SelectSeq(names, LAMBDA name : endswith(name, DotMp3) /\ name \in now)

\* TrackLister.ingest_cache: the names (without directory) that end in .mp3
RECURSIVE ingest_cache(_)
ingest_cache(walked) ==
  IF walked = << >> THEN << >>
  ELSE (IF endswith(Head(walked).name, DotMp3) THEN << Head(walked).name >> ELSE << >>)
       \o ingest_cache(Tail(walked))

Modes == { "track_list", "dynamic", "cache", "other" }

\* the settings a Config object can hold
Configs ==
  [ ingestion_mode : Modes, clean_up : BOOLEAN, persistent_cache : BOOLEAN,
    sort_mask : Masks ]

RECURSIVE SeqsUpTo(_, _)
SeqsUpTo(S, n) ==
  IF n = 0 THEN { << >> }
  ELSE LET shorter == SeqsUpTo(S, n - 1)
       IN  shorter \cup { Append(q, x) : q \in { r \in shorter : Len(r) = n - 1 }, x \in S }

\* the 'input' arrays of the track list file
Manifests == SeqsUpTo({ KTrack, KNote, KSong }, MaxManifest)

\* the bucket before the first run
InitBuckets == { [k \in D |-> InitContent(k)] : D \in SUBSET Keys }

\* a bucket or a directory that holds nothing
EmptyMap == [k \in {} |-> k]

\* the cache directory before the first run: absent, or left behind by an
\* earlier run or by the operator
OldFile  == Path(<< >>, << "o", ".", "m", "p", "3" >>)
DeepFile == Path(<< "d" >>, << "n", ".", "m", "p", "3" >>)
DeepTwin == Path(<< "d" >>, << "o", ".", "m", "p", "3" >>)
InitCaches ==
  { EmptyMap,
    [p \in { OldFile } |-> "old"],
    [p \in { DeepFile } |-> "tagged"],
    [p \in { OldFile, DeepTwin } |-> IF p = OldFile THEN "old" ELSE "tagged"] }

\* the record of a call issued to S3io, or of shutil.rmtree, and whether it
\* returned (ok) or raised
Op(op, key, local, ok) == [op |-> op, key |-> key, local |-> local, ok |-> ok]
NoPath == Path(<< >>, << >>)

\* f with x mapped to v
Put(f, x, v) == [k \in DOMAIN f \cup { x } |-> IF k = x THEN v ELSE f[k]]
\* f without the keys of S
Drop(f, S) == [k \in DOMAIN f \ S |-> f[k]]

\* ----------------------------------------------------------------- logging
\* class ERR: the value of a channel
ERR(name) ==
  CASE name = "FATAL" -> 1 [] name = "INFO" -> 2 [] name = "WARN" -> 3 [] name = "DEBUG" -> 4

\* the values logging_level can take
Verbosities == 1..4

\* Logger.log: whether a message of channel err_class is printed (and
\* written to the log file) by a logger of the given verbosity
Shown(err_class, verbosity) ==
  \/ err_class = "INFO"  /\ verbosity >= ERR("INFO")
  \/ err_class = "WARN"  /\ verbosity >= ERR("WARN")
  \/ err_class = "FATAL"
  \/ err_class = "DEBUG" /\ verbosity >= ERR("DEBUG")

\* one call slog( err_class, msg ); msg without its arguments
Msg(err_class, msg) == [err_class |-> err_class, msg |-> msg]

\* S3io.__init__ and the start of Main()
StartLog ==
  << Msg("INFO", "new run started"),
     Msg("DEBUG", "boto3 session initiated"),
     Msg("DEBUG", "s3 client initialized") >>

\* Main(), line 506, and the start of TrackLister.__init__
ListerStartLog(mode) ==
  (IF mode = "dynamic" THEN << >> ELSE << Msg("INFO", "Ingestion mode is") >>)
  \o << Msg("DEBUG", "Using track listing mode") >>

\* the end of TrackLister.__init__
ListerEndLog ==
  << Msg("INFO", "Tracks found"), Msg("DEBUG", "Track Ingestor Initialized") >>

\* TrackConverter.__init__
ConverterLog ==
  << Msg("DEBUG", "Tags found for"), Msg("INFO", "Target path"),
     Msg("DEBUG", "ID3/TEMPLATE conversion engine initialized") >>

\* the loop of slurp_cache, which ends at the first name that is no file
RECURSIVE SlurpLog(_, _)
SlurpLog(listed, files) ==
  IF listed = << >> THEN << >>
  ELSE << Msg("INFO", "Cache Found") >>
       \o (IF Path(<< >>, Head(listed)) \in files
           THEN ConverterLog \o SlurpLog(Tail(listed), files)
           ELSE << >>)

\* Main(), line 529, once phase p is the end
CompletedLog(p) == IF p = "done" THEN << Msg("INFO", "run completed") >> ELSE << >>

Init ==
  /\ run = 1
  /\ pc = "start"
  /\ config \in Configs
  /\ configured = config
  /\ track_list \in (IF config.ingestion_mode = "track_list" THEN Manifests ELSE { << >> })
  /\ bucket \in InitBuckets
  /\ cache \in InitCaches
  /\ cacheExists = (DOMAIN cache # {})
  /\ tracks = << >>
  /\ contents = << >>
  /\ cache_list = << >>
  /\ i = 0
  /\ ops = << >>
  /\ staged = {}
  /\ error = "none"
  /\ log = << >>

\* the run ends with an unhandled exception
Raise(e) == pc' = "failed" /\ error' = e

\* mutant: the cache directory is erased before the upload
MainNext_PurgeFirst(p, cfg) ==
  CASE p = "enumerate" -> IF cfg.ingestion_mode = "cache" THEN "resolve" ELSE "stage"
    [] p = "stage"     -> "resolve"
    [] p = "resolve"   -> IF ~cfg.persistent_cache THEN "purge" ELSE "publish"
    [] p = "purge"     -> "publish"
    [] p = "publish"   -> "clean"
    [] p = "clean"     -> "done"

\* mutant: the persistent_cache test is inverted
MainNext_FlagInverted(p, cfg) ==
  CASE p = "enumerate" -> IF cfg.ingestion_mode = "cache" THEN "resolve" ELSE "stage"
    [] p = "stage"     -> "resolve"
    [] p = "resolve"   -> "publish"
    [] p = "publish"   -> "clean"
    [] p = "clean"     -> IF cfg.persistent_cache THEN "purge" ELSE "done"
    [] p = "purge"     -> "done"

\* Main(): the phase that follows phase p
MainNext(p, cfg) ==
  CASE p = "enumerate" -> IF cfg.ingestion_mode = "cache" THEN "resolve" ELSE "stage"
    [] p = "stage"     -> "resolve"
    [] p = "resolve"   -> "publish"
    [] p = "publish"   -> "clean"
    [] p = "clean"     -> IF ~cfg.persistent_cache THEN "purge" ELSE "done"
    [] p = "purge"     -> "done"

\* mutant: the mode is not looked at
CleanUpGuard_NoModeTest(cfg) == cfg.clean_up

\* Main(): the condition under which the source tracks are deleted
CleanUpGuard(cfg) == cfg.clean_up /\ ~(cfg.ingestion_mode = "cache")

\* Config.__init__ and the set-up of Main(): cache_dir is created if absent
LoadConfig ==
  /\ pc = "start"
  /\ cacheExists' = TRUE
  /\ pc' = "enumerate"
  /\ log' = log \o StartLog
  /\ UNCHANGED << run, config, configured, track_list, bucket, cache, tracks,
                  contents, cache_list, i, ops, staged, error >>

\* TrackLister.__init__, mode 'track_list'
EnumerateTrackList ==
  /\ pc = "enumerate"
  /\ config.ingestion_mode = "track_list"
  /\ tracks' = ingest_trackfile(track_list)
  /\ pc' = MainNext("enumerate", config)
  /\ i' = 1
  /\ log' = log \o ListerStartLog(config.ingestion_mode) \o ListerEndLog
  /\ UNCHANGED << run, config, configured, track_list, bucket, cache, cacheExists,
                  contents, cache_list, ops, staged, error >>

\* TrackLister.__init__, mode 'dynamic'
EnumerateDynamic ==
  /\ pc = "enumerate"
  /\ config.ingestion_mode = "dynamic"
  /\ \E allowed \in BOOLEAN :
       LET r == list_bucket_contents(bucket, allowed)
       IN  /\ ops' = Append(ops, Op("list", << >>, NoPath, r.err = "none"))
           /\ IF r.err = "none"
              THEN /\ contents' = r.files
                   /\ tracks' = ingest_s3(r.files)
                   /\ pc' = MainNext("enumerate", config)
                   /\ i' = 1
                   /\ log' = log \o ListerStartLog(config.ingestion_mode)
                                 \o << Msg("DEBUG", "S3 contents found") >> \o ListerEndLog
                   /\ UNCHANGED error
              ELSE /\ Raise(r.err)
                   /\ log' = log \o ListerStartLog(config.ingestion_mode)
                   /\ UNCHANGED << contents, tracks, i >>
  /\ UNCHANGED << run, config, configured, track_list, bucket, cache, cacheExists,
                  cache_list, staged >>

\* TrackLister.__init__, mode 'cache'
EnumerateCache ==
  /\ pc = "enumerate"
  /\ config.ingestion_mode = "cache"
  /\ \E w \in walk(DOMAIN cache) : tracks' = ingest_cache(w)
  /\ pc' = MainNext("enumerate", config)
  /\ i' = 1
  /\ log' = log \o ListerStartLog(config.ingestion_mode) \o ListerEndLog
  /\ UNCHANGED << run, config, configured, track_list, bucket, cache, cacheExists,
                  contents, cache_list, ops, staged, error >>

\* mutant: no else branch, a mode that is not known leaves the track list empty
EnumerateInvalid_NoElse ==
  /\ pc = "enumerate"
  /\ config.ingestion_mode \notin { "track_list", "dynamic", "cache" }
  /\ tracks' = << >>
  /\ pc' = MainNext("enumerate", config)
  /\ i' = 1
  /\ log' = log \o ListerStartLog(config.ingestion_mode) \o ListerEndLog
  /\ UNCHANGED << run, config, configured, track_list, bucket, cache, cacheExists,
                  contents, cache_list, ops, staged, error >>

\* TrackLister.__init__, any other mode
EnumerateInvalid ==
  /\ pc = "enumerate"
  /\ config.ingestion_mode \notin { "track_list", "dynamic", "cache" }
  /\ Raise("InvalidValue")
  /\ log' = log \o ListerStartLog(config.ingestion_mode)
  /\ UNCHANGED << run, config, configured, track_list, bucket, cache, cacheExists,
                  tracks, contents, cache_list, i, ops, staged >>

\* mutant: a download that fails is skipped and the loop goes on
Download_SkipsFailure ==
  /\ pc = "stage"
  /\ i <= Len(tracks)
  /\ \E granted \in BOOLEAN :
       LET track == tracks[i]
           local == local_filename(track)
           ok    == granted /\ track \in DOMAIN bucket /\ cacheExists
       IN  /\ ops' = Append(ops, Op("download", track, local, ok))
           /\ log' = Append(log, Msg("INFO", "Downloading"))
           /\ i' = i + 1
           /\ IF ok
              THEN /\ cache' = Put(cache, local, bucket[track])
                   /\ staged' = staged \cup { [run |-> run, track |-> track, local |-> local] }
              ELSE UNCHANGED << cache, staged >>
  /\ UNCHANGED << run, pc, error, config, configured, track_list, bucket, cacheExists,
                  tracks, contents, cache_list >>

\* download_all_tracks: one pass of the loop, S3io.download_file
Download ==
  /\ pc = "stage"
  /\ i <= Len(tracks)
  /\ \E granted \in BOOLEAN :
       LET track == tracks[i]
           local == local_filename(track)
           ok    == granted /\ track \in DOMAIN bucket /\ cacheExists
       IN  /\ ops' = Append(ops, Op("download", track, local, ok))
           /\ log' = Append(log, Msg("INFO", "Downloading"))
           /\ IF ok
              THEN /\ cache' = Put(cache, local, bucket[track])
                   /\ staged' = staged \cup { [run |-> run, track |-> track, local |-> local] }
                   /\ i' = i + 1
                   /\ UNCHANGED << pc, error >>
              ELSE /\ Raise("InvalidPermissions")
                   /\ UNCHANGED << cache, staged, i >>
  /\ UNCHANGED << run, config, configured, track_list, bucket, cacheExists,
                  tracks, contents, cache_list >>

\* download_all_tracks returns
StageDone ==
  /\ pc = "stage"
  /\ i > Len(tracks)
  /\ pc' = MainNext("stage", config)
  /\ UNCHANGED << run, config, configured, track_list, bucket, cache, cacheExists,
                  tracks, contents, cache_list, i, ops, staged, error, log >>

\* TrackConverter.__init__ for the file cache_dir/name
TrackConverter(cfg, files, name) ==
  LET filepath == Path(<< >>, name)
  IN  [ local_path  |-> filepath,
        target_path |-> load_target_template(TinyTagGet(files[filepath]), cfg.sort_mask) ]

\* slurp_cache: the mode of the shared Config object is overwritten, the cache
\* directory is listed and every listed name is converted
slurp_cache ==
  /\ pc = "resolve"
  /\ config' = [config EXCEPT !.ingestion_mode = "cache"]
  /\ \E w \in walk(DOMAIN cache) :
       LET listed == ingest_cache(w)
       IN  /\ log' = log \o ListerStartLog("cache") \o ListerEndLog
                         \o SlurpLog(listed, DOMAIN cache)
           /\ IF \A n \in 1..Len(listed) : Path(<< >>, listed[n]) \in DOMAIN cache
              THEN /\ cache_list' = [n \in 1..Len(listed) |-> TrackConverter(config', cache, listed[n])]
                   /\ pc' = MainNext("resolve", config')
                   /\ i' = 1
                   /\ UNCHANGED error
              ELSE /\ Raise("FileNotFoundError")
                   /\ UNCHANGED << cache_list, i >>
  /\ UNCHANGED << run, configured, track_list, bucket, cache, cacheExists,
                  tracks, contents, ops, staged >>

\* mutant: an upload that fails takes back the uploads made before it
Upload_RollsBack ==
  /\ pc = "publish"
  /\ i <= Len(cache_list)
  /\ \E accepted \in BOOLEAN :
       LET track == cache_list[i]
           ok    == accepted /\ track.target_path # << >> /\ track.local_path \in DOMAIN cache
       IN  /\ ops' = Append(ops, Op("upload", track.target_path, track.local_path, ok))
           /\ log' = Append(log, Msg("INFO", "Uploading"))
           /\ IF ok
              THEN /\ bucket' = Put(bucket, track.target_path, cache[track.local_path])
                   /\ i' = i + 1
                   /\ UNCHANGED << pc, error >>
              ELSE /\ Raise("S3UploadFailedError")
                   /\ bucket' = Drop(bucket, { cache_list[k].target_path : k \in 1..(i - 1) })
                   /\ UNCHANGED i
  /\ UNCHANGED << run, config, configured, track_list, cache, cacheExists,
                  tracks, contents, cache_list, staged >>

\* upload_all_tracks: one pass of the loop, S3io.upload_file
Upload ==
  /\ pc = "publish"
  /\ i <= Len(cache_list)
  /\ \E accepted \in BOOLEAN :
       LET track == cache_list[i]
           ok    == accepted /\ track.target_path # << >> /\ track.local_path \in DOMAIN cache
       IN  /\ ops' = Append(ops, Op("upload", track.target_path, track.local_path, ok))
           /\ log' = Append(log, Msg("INFO", "Uploading"))
           /\ IF ok
              THEN /\ bucket' = Put(bucket, track.target_path, cache[track.local_path])
                   /\ i' = i + 1
                   /\ UNCHANGED << pc, error >>
              ELSE /\ Raise("S3UploadFailedError")
                   /\ UNCHANGED << bucket, i >>
  /\ UNCHANGED << run, config, configured, track_list, cache, cacheExists,
                  tracks, contents, cache_list, staged >>

\* upload_all_tracks returns
PublishDone ==
  /\ pc = "publish"
  /\ i > Len(cache_list)
  /\ pc' = MainNext("publish", config)
  /\ UNCHANGED << run, config, configured, track_list, bucket, cache, cacheExists,
                  tracks, contents, cache_list, i, ops, staged, error, log >>

\* the delete_file calls for the first m tracks, of which the first n return
DeleteOps(n, m) == [k \in 1..m |-> Op("delete", tracks[k], NoPath, k <= n)]

\* Main(): the clean_up test and delete_source_tracks; the store accepts the
\* first n delete_object calls and, if n is not all of them, rejects the next
CleanSources ==
  /\ pc = "clean"
  /\ IF CleanUpGuard(config)
     THEN \E n \in 0..Len(tracks) :
            /\ bucket' = Drop(bucket, { tracks[k] : k \in 1..n })
            /\ IF n = Len(tracks)
               THEN /\ ops' = ops \o DeleteOps(n, n)
                    /\ pc' = MainNext("clean", config)
                    /\ log' = log \o [k \in 1..n |-> Msg("WARN", "Deleting file")]
                                  \o CompletedLog(pc')
                    /\ UNCHANGED error
               ELSE /\ ops' = ops \o DeleteOps(n, n + 1)
                    /\ log' = log \o [k \in 1..(n + 1) |-> Msg("WARN", "Deleting file")]
                    /\ Raise("ClientError")
     ELSE /\ pc' = MainNext("clean", config)
          /\ log' = log \o CompletedLog(pc')
          /\ UNCHANGED << bucket, ops, error >>
  /\ UNCHANGED << run, config, configured, track_list, cache, cacheExists,
                  tracks, contents, cache_list, i, staged >>

\* Main(): shutil.rmtree( config.cache_dir ); when it cannot complete it
\* raises and leaves the directory with whatever it had not yet removed
Purge ==
  /\ pc = "purge"
  /\ \E completes \in BOOLEAN :
       /\ ops' = Append(ops, Op("rmtree", << >>, NoPath, completes))
       /\ IF completes
          THEN
            /\ cache' = EmptyMap
            /\ cacheExists' = FALSE
            /\ pc' = MainNext("purge", config)
            /\ log' = log \o << Msg("WARN", "erasing cache directory") >> \o CompletedLog(pc')
            /\ UNCHANGED error
          ELSE
            /\ \E left \in SUBSET DOMAIN cache : cache' = Drop(cache, DOMAIN cache \ left)
            /\ Raise("OSError")
            /\ log' = Append(log, Msg("WARN", "erasing cache directory"))
            /\ UNCHANGED cacheExists
  /\ UNCHANGED << run, config, configured, track_list, bucket,
                  tracks, contents, cache_list, i, staged >>

\* the operator starts the utility again with the same ini file, on the
\* bucket and the cache directory as the earlier run left them
NewRun ==
  /\ pc \in { "done", "failed" }
  /\ run < MaxRuns
  /\ run' = run + 1
  /\ pc' = "start"
  /\ config' = configured
  /\ configured' = config'
  /\ tracks' = << >>
  /\ contents' = << >>
  /\ cache_list' = << >>
  /\ i' = 0
  /\ ops' = << >>
  /\ error' = "none"
  /\ log' = << >>
  /\ UNCHANGED << track_list, bucket, cache, cacheExists, staged >>

Next ==
  \/ LoadConfig
  \/ EnumerateTrackList
  \/ EnumerateDynamic
  \/ EnumerateCache
  \/ EnumerateInvalid
  \/ Download
  \/ StageDone
  \/ slurp_cache
  \/ Upload
  \/ PublishDone
  \/ CleanSources
  \/ Purge
  \/ NewRun

Spec == Init /\ [][Next]_vars

\* ================================================================== claims
\* the calls of one kind in ops, in order
OpsOf(kind) == SelectSeq(ops, LAMBDA o : o.op = kind)
KeysOf(kind) == [n \in 1..Len(OpsOf(kind)) |-> OpsOf(kind)[n].key]
IsPrefix(s, t) == Len(s) <= Len(t) /\ SubSeq(t, 1, Len(s)) = s
Elems(s) == { s[n] : n \in 1..Len(s) }

\* a key whose last four characters are . m p 3
IsMp3Key(k) ==
  /\ Len(k) >= 4
  /\ k[Len(k) - 3] = "." /\ k[Len(k) - 2] = "m" /\ k[Len(k) - 1] = "p" /\ k[Len(k)] = "3"
IsDirMarker(k) == Len(k) >= 1 /\ k[Len(k)] = "/"

\* C1: a track_list or dynamic run with clean_up = true that reaches the end
\* (so every download and upload succeeded) has issued a delete_file call
\* for every enumerated track.
C1_CleanSourcesDeletesEveryTrack ==
  ( /\ pc = "done"
    /\ configured.ingestion_mode \in { "track_list", "dynamic" }
    /\ configured.clean_up )
  => \A t \in Elems(tracks) : t \in Elems(KeysOf("delete"))

\* C2: a run configured with mode 'cache' never issues a delete_file call,
\* whatever clean_up is and whatever the cache directory holds.
C2_CacheModeNeverDeletes ==
  configured.ingestion_mode = "cache" => OpsOf("delete") = << >>

C2_Witness ==
  /\ pc = "done"
  /\ configured.ingestion_mode = "cache"
  /\ configured.clean_up
  /\ tracks # << >>
  /\ OpsOf("upload") # << >>

\* C3: the key of every delete_file call issued so far is one of the
\* enumerated tracks, and an entry of the track list that does not end in
\* '.mp3' is neither downloaded nor deleted.
C3_OnlyEnumeratedTouched ==
  /\ \A k \in Elems(KeysOf("delete")) : k \in Elems(tracks)
  /\ configured.ingestion_mode = "track_list" =>
       \A e \in Elems(track_list) :
         ~IsMp3Key(e) => e \notin Elems(KeysOf("download")) \cup Elems(KeysOf("delete"))

C3_Witness ==
  /\ pc = "done"
  /\ configured.ingestion_mode = "track_list"
  /\ configured.clean_up
  /\ track_list = << KNote, KSong >>
  /\ KeysOf("download") = << KSong >>

\* C4: the phases run in order and are never re-entered: within a run the
\* position of Main() only moves forward, and in the calls issued so far every
\* list precedes every download, every download every upload, every upload
\* every delete, and every delete the rmtree of the cache directory.
PhaseRank(p) ==
  CASE p = "start" -> 0 [] p = "enumerate" -> 1 [] p = "stage" -> 2
    [] p = "resolve" -> 3 [] p = "publish" -> 4 [] p = "clean" -> 5
    [] p = "purge" -> 6 [] p = "done" -> 7 [] p = "failed" -> 8

OpRank(o) ==
  CASE o.op = "list" -> 1 [] o.op = "download" -> 2 [] o.op = "upload" -> 4
    [] o.op = "delete" -> 5 [] o.op = "rmtree" -> 6

OpsInPhaseOrder(s) == \A a, b \in 1..Len(s) : a < b => OpRank(s[a]) <= OpRank(s[b])

C4_PhasesForwardOnly ==
  [][ /\ OpsInPhaseOrder(ops')
      /\ run' = run => PhaseRank(pc') >= PhaseRank(pc) ]_vars

C4_Witness ==
  /\ pc = "done"
  /\ Len(OpsOf("download")) >= 2
  /\ Len(OpsOf("upload")) >= 2
  /\ OpsOf("rmtree") # << >>

C6_DynamicKeepsMp3Keys ==
  configured.ingestion_mode = "dynamic" =>
    /\ tracks = SelectSeq(contents, LAMBDA k : IsMp3Key(k) /\ ~IsDirMarker(k))
    /\ contents = << KDir, KTrack, KNote >> => tracks = << KTrack >>

C6_Witness ==
  /\ configured.ingestion_mode = "dynamic"
  /\ pc = "stage"
  /\ contents = << KDir, KTrack, KNote >>
  /\ tracks = << KTrack >>

\* C7: in mode 'track_list' the download_file calls issued so far are, in
\* order, the first entries of the track list that end in '.mp3', and once
\* the download loop has finished they are all of them, one call per entry.
C7_ManifestDownloads ==
  configured.ingestion_mode = "track_list" =>
    LET wanted == SelectSeq(track_list, IsMp3Key)
    IN  /\ IsPrefix(KeysOf("download"), wanted)
        /\ pc \in { "resolve", "publish", "clean", "purge", "done" } =>
             KeysOf("download") = wanted

C7_Witness ==
  /\ configured.ingestion_mode = "track_list"
  /\ pc = "done"
  /\ track_list = << KTrack, KSong >>
  /\ KeysOf("download") = << KTrack, KSong >>

\* C8: a file without artist, album and title tags renders the mask
\* {{artist}}/{{album}}/{{title}}.mp3 as "//.mp3", each variable replaced by
\* the empty string.
C8_AbsentTagsRenderEmpty ==
  \A n \in 1..Len(cache_list) :
    LET t == cache_list[n]
    IN  ( /\ t.local_path \in DOMAIN cache
          /\ TinyTagGet(cache[t.local_path]) = [artist |-> None, album |-> None, title |-> None]
          /\ config.sort_mask = MaskFull )
        => t.target_path = << "/", "/", ".", "m", "p", "3" >>

\* C9: no upload_file call is issued with an empty object name.
C9_NoUploadToEmptyKey ==
  \A k \in Elems(KeysOf("upload")) : k # << >>

\* C10: every download of one track, in whatever run, was written to one and
\* the same local file, so the staged files are at most as many as the
\* distinct tracks staged.
StagedFilesOf(t) == { s.local : s \in { r \in staged : r.track = t } }

C11_UnknownModeFailsFast ==
  configured.ingestion_mode \notin { "track_list", "dynamic", "cache" } =>
    /\ ops = << >>
    /\ pc \in { "start", "enumerate", "failed" }
    /\ pc = "failed" => error = "InvalidValue"

C11_Witness ==
  /\ configured.ingestion_mode = "other"
  /\ pc = "failed"
  /\ error = "InvalidValue"
  /\ ops = << >>
  /\ DOMAIN cache # {}

\* C12: an upload_file or delete_file call that the store rejects (the object
\* name is not empty and the local file exists) ends the run with
\* InvalidPermissions, as a rejected list or download does.
C12_RejectedUploadIsInvalidPermissions ==
  \A n \in 1..Len(ops) :
    ( /\ ops[n].op \in { "upload", "delete" }
      /\ ~ops[n].ok
      /\ ops[n].op = "upload" => ops[n].key # << >> /\ ops[n].local \in DOMAIN cache )
    => error = "InvalidPermissions"

\* C13: a run that ended with an exception has logged a FATAL message that a
\* logger of every verbosity prints, and has not logged 'run completed'.
C13_AbortLogsFatal ==
  pc = "failed" =>
    /\ \A v \in Verbosities :
         \E n \in 1..Len(log) : log[n].err_class = "FATAL" /\ Shown(log[n].err_class, v)
    /\ \A n \in 1..Len(log) : log[n].msg # "run completed"

\* C14: a download_file call that fails is the last thing the run does: the
\* run has ended, and no download, upload, delete or rmtree follows it.
C14_FailedDownloadAborts ==
  \A n \in 1..Len(ops) :
    (ops[n].op = "download" /\ ~ops[n].ok) => (n = Len(ops) /\ pc = "failed")

C14_Witness ==
  /\ pc = "failed"
  /\ Len(ops) = 2
  /\ ops[1].op = "download" /\ ops[1].ok
  /\ ops[2].op = "download" /\ ~ops[2].ok
  /\ ops[2].key \in DOMAIN bucket

\* C15: an upload_file call that fails is the last thing the run does, the
\* objects of the uploads before it are still in the bucket, and a delete_file
\* call is only issued when every upload has returned.
C15_FailedUploadKeepsEarlier ==
  /\ \A n \in 1..Len(ops) :
       (ops[n].op = "upload" /\ ~ops[n].ok) =>
         /\ n = Len(ops)
         /\ pc = "failed"
         /\ \A m \in 1..(n - 1) : ops[m].op = "upload" => ops[m].key \in DOMAIN bucket
  /\ OpsOf("delete") # << >> => \A n \in 1..Len(ops) : ops[n].op = "upload" => ops[n].ok

C15_Witness ==
  /\ pc = "failed"
  /\ Len(OpsOf("upload")) = 2
  /\ OpsOf("upload")[1].ok
  /\ ~OpsOf("upload")[2].ok
  /\ OpsOf("upload")[2].key # << >>
  /\ OpsOf("upload")[1].key # OpsOf("upload")[2].key
  /\ OpsOf("upload")[1].key \in DOMAIN bucket

\* C16: a run in mode 'cache' issues no list and no download call, and the
\* files it has uploaded when the upload loop has finished are exactly the
\* .mp3 files of the cache directory.
C16_CacheModePublishesCache ==
  configured.ingestion_mode = "cache" =>
    /\ OpsOf("list") = << >>
    /\ OpsOf("download") = << >>
    /\ pc = "clean" =>
         { o.local : o \in { u \in Elems(ops) : u.op = "upload" /\ u.ok } }
           = { f \in DOMAIN cache : IsMp3Key(f.name) }

\* C17: slurp_cache does not fail on a file of a sub-directory, and when the
\* upload loop starts every .mp3 file below the cache directory is the
\* local_path of exactly one TrackConverter object.
C17_ResolveCoversNestedFiles ==
  /\ error # "FileNotFoundError"
  /\ pc = "publish" =>
       \A f \in { g \in DOMAIN cache : IsMp3Key(g.name) } :
         Cardinality({ n \in 1..Len(cache_list) : cache_list[n].local_path = f }) = 1

\* C18: the Config object of the run holds, at every point of the run, the
\* values the run was started with.
C18_ConfigNeverChanges ==
  config = configured

\* C19: list_bucket_contents fails only when the store rejects the call: a
\* run that ended in the list call ended with InvalidPermissions, also for a
\* bucket without objects; a listing that returned holds every key once.
C19_ListFailsOnlyOnRejection ==
  /\ (pc = "failed" /\ ops # << >> /\ ops[Len(ops)].op = "list") => error = "InvalidPermissions"
  /\ (pc = "stage" /\ ops # << >> /\ ops[Len(ops)].op = "list") =>
       /\ Elems(contents) = DOMAIN bucket
       /\ Len(contents) = Cardinality(DOMAIN bucket)

\* C20: when a run that keeps its cache has ended normally, the bucket holds,
\* for every .mp3 file of the cache directory, an object under the target
\* path of that file with the content of that file.
C20_NoPublishedContentLost ==
  (pc = "done" /\ configured.persistent_cache) =>
    \A f \in { g \in DOMAIN cache : IsMp3Key(g.name) } :
      LET target == load_target_template(TinyTagGet(cache[f]), config.sort_mask)
      IN  target \in DOMAIN bucket /\ bucket[target] = cache[f]

\* the local files download_all_tracks writes for the tracks of this run
StagedNow == { local_filename(tracks[n]) : n \in 1..Len(tracks) }

\* the local files of the uploads that were made
Uploaded == { o.local : o \in { u \in Elems(ops) : u.op = "upload" /\ u.ok } }

\* the .mp3 files of the cache directory, at whatever depth
Mp3Files == { f \in DOMAIN cache : IsMp3Key(f.name) }

\* C21 as stated: in a track_list or dynamic run whose uploads have all been
\* made, every uploaded local file is the staged copy of a track of this run
\* and there are as many uploads as distinct tracks, whatever the cache
\* directory held before the run.
C21_UploadsOnlyThisRunsFiles ==
  (configured.ingestion_mode \in { "track_list", "dynamic" } /\ pc = "clean") =>
    /\ Uploaded \subseteq StagedNow
    /\ Len(OpsOf("upload")) = Cardinality(Elems(tracks))

\* C21 amended: in a track_list or dynamic run whose uploads have all been
\* made, the staged copy of every track of this run was uploaded, every
\* uploaded local file is a .mp3 file of the cache directory (written in this
\* run or found there), and there are as many uploads as the cache directory
\* holds .mp3 files.
C21_UploadsWholeCache ==
  (configured.ingestion_mode \in { "track_list", "dynamic" } /\ pc = "clean") =>
    /\ StagedNow \subseteq Uploaded
    /\ Uploaded \subseteq Mp3Files
    /\ Len(OpsOf("upload")) = Cardinality(Mp3Files)

C21_Witness ==
  /\ configured.ingestion_mode \in { "track_list", "dynamic" }
  /\ pc = "clean"
  /\ run = 1
  /\ tracks # << >>
  /\ OldFile \in Uploaded
  /\ OldFile \notin StagedNow
  /\ local_filename(tracks[1]) \in Uploaded
  /\ Len(OpsOf("upload")) = Cardinality(Elems(tracks)) + 1

====
